---- MODULE Spec2Model ----
(***************************************************************************)
(* Model of the ReAct controller (crates/controller/src/react.rs) and of   *)
(* the session types it drives (crates/core/src/types.rs).                 *)
(*                                                                         *)
(* Text is a sequence of tokens.  Each wire marker of react.rs is one      *)
(* token, so that prefix tests, substring tests and splits on a marker are *)
(* tests on whole tokens:                                                  *)
(*   "FA"   FINAL ANSWER:     "ACT"  ACTION:      "ARGS" ARGS:             *)
(*   "TH"   THOUGHT:          "DEL"  DELEGATE:    "CTX"  CONTEXT:          *)
(*   "sp"   a blank           "nl"   a line feed  "x"    any other char    *)
(*   "J"    a JSON literal that serde_json accepts and that is not {}      *)
(*   "{}"   the literal {} (only produced by the code, as a default)       *)
(***************************************************************************)
EXTENDS Integers, Sequences, FiniteSets, TLC

VARIABLES
    config,         \* ReActConfig: max_iterations, default_budget, persist_state
    llm,            \* self.llm is Some
    tools,          \* self.tools is Some
    session_store,  \* self.session_store is Some
    compressor,     \* self.compressor is Some
    delegator,      \* self.delegator is Some
    pc,             \* position of the caller inside Controller::execute
    session,        \* the local `session` of execute, NoSession before create_session
    iteration,      \* loop variable of `for iteration in 0..max_iterations`
    messages,       \* the local `messages` of execute_iteration_with_llm
    action,         \* the ReActAction decoded last
    step_result,    \* the Some(result) an iteration returned
    outcome,        \* what execute returned to the caller
    raised,         \* the Err values produced so far, in order
    calls,          \* number of invocations per capability
    store,          \* the snapshot the session store holds
    handed,         \* the snapshots handed to SessionStore::save, in order
    text,           \* input of parse_action under test
    tracker,        \* TokenUsage under test
    sum_p,          \* sum of the prompt arguments passed to add
    sum_c,          \* sum of the completion arguments passed to add
    exceeded,       \* last value returned by is_exceeded
    intent,         \* the UserIntent variant execute was called with
    returned,       \* which awaited capability call came back last, and how
    pending,        \* the capability calls issued and not yet returned
    api             \* the last cancel or resume call and what it returned

vars == <<config, llm, tools, session_store, compressor, delegator, pc, session,
          iteration, messages, action, step_result, outcome, raised, calls,
          store, handed, text, tracker, sum_p, sum_c, exceeded, intent, returned, pending, api>>

\* ---------------------------------------------------------------- bounds
MaxLen == 3         \* longest text handed to parse_action under test
MaxIter == 2        \* largest configured max_iterations
MaxBudget == 2      \* largest configured default_budget
MaxAdds == 3        \* longest sequence of TokenUsage::add calls under test

\* ---------------------------------------------------------------- text
Whitespace == {"sp", "nl"}
Alphabet == {"FA", "ACT", "ARGS", "TH", "DEL", "CTX", "sp", "nl", "x", "J"}

Texts(n) == UNION {[1..k -> Alphabet] : k \in 0..n}

\* the offset i of &s[i..] is in bounds (Rust panics when it is not)
SliceOk(s, i) == i <= Len(s)

\* &s[i..] on a 0-based offset i
SliceFrom(s, i) == SubSeq(s, i + 1, Len(s))

\* str::trim
RECURSIVE TrimStart(_)
TrimStart(s) ==
    IF s # <<>> /\ Head(s) \in Whitespace THEN TrimStart(Tail(s)) ELSE s

RECURSIVE TrimEnd(_)
TrimEnd(s) ==
    IF s # <<>> /\ s[Len(s)] \in Whitespace
    THEN TrimEnd(SubSeq(s, 1, Len(s) - 1)) ELSE s

\* Trim with the trailing white space left in place
Trim_StartOnly(s) == TrimStart(s)

Trim(s) == TrimEnd(TrimStart(s))

\* str::find: 0-based offset of the first occurrence, -1 for None
Find(s, m) ==
    IF \E i \in 1..Len(s) : s[i] = m
    THEN (CHOOSE i \in 1..Len(s) : s[i] = m /\ \A j \in 1..(i - 1) : s[j] # m) - 1
    ELSE -1

\* str::contains
Contains(s, m) == Find(s, m) >= 0

\* HasPrefix as a substring test
HasPrefix_Anywhere(s, m) == Contains(s, m)

\* str::strip_prefix(..).is_some()
HasPrefix(s, m) == s # <<>> /\ Head(s) = m

\* str::split_once(m), the second component
AfterFirst(s, m) == SubSeq(s, Find(s, m) + 2, Len(s))

\* s.lines().next().unwrap_or(default)
FirstLineOr(s, default) ==
    IF s = <<>> THEN default
    ELSE IF Find(s, "nl") >= 0 THEN SubSeq(s, 1, Find(s, "nl")) ELSE s

\* serde_json::from_str(line).unwrap_or(json!({}))
JsonEmpty == [json |-> "{}"]
JsonFromStrOrEmpty(line) ==
    IF line = <<"J">> THEN [json |-> "J"] ELSE JsonEmpty

\* ---------------------------------------------------------------- ReActAction
FinalAnswer(t) == [type |-> "FinalAnswer", text |-> t]
ToolCall(n, a) == [type |-> "ToolCall", name |-> n, args |-> a]
Think(t) == [type |-> "Think", text |-> t]
Delegate(o, c) == [type |-> "Delegate", objective |-> o, context |-> c]
Panic == [type |-> "Panic"]
NoAction == [type |-> "None"]

\* react.rs 242-248: the args of an ACTION
ParseArgs(rest) ==
    IF Find(rest, "ARGS") >= 0
    THEN LET args_str == SliceFrom(rest, Find(rest, "ARGS") + 1)
             args_line == Trim(FirstLineOr(args_str, <<"{}">>))
         IN  JsonFromStrOrEmpty(args_line)
    ELSE JsonEmpty

\* react.rs 266-270: the context of a DELEGATE
ParseContext(rest) ==
    IF Find(rest, "CTX") >= 0
    THEN Trim(FirstLineOr(SliceFrom(rest, Find(rest, "CTX") + 1), <<>>))
    ELSE <<>>

\* the slices parse_action takes of `rest` are in bounds
SlicesOk(rest, m) == Find(rest, m) >= 0 => SliceOk(rest, Find(rest, m) + 1)

parse_action(response) ==
    LET response_trimmed == Trim(response) IN
    IF HasPrefix(response_trimmed, "FA")
    THEN FinalAnswer(Trim(Tail(response_trimmed)))
    ELSE IF Contains(response_trimmed, "ACT")
    THEN LET rest == AfterFirst(response_trimmed, "ACT")
             action_line == Trim(FirstLineOr(rest, <<>>))
         IN  IF SlicesOk(rest, "ARGS")
             THEN ToolCall(action_line, ParseArgs(rest))
             ELSE Panic
    ELSE IF HasPrefix(response_trimmed, "TH")
    THEN Think(Trim(Tail(response_trimmed)))
    ELSE IF Contains(response_trimmed, "DEL")
    THEN LET rest == AfterFirst(response_trimmed, "DEL")
             objective == Trim(FirstLineOr(rest, <<>>))
         IN  IF SlicesOk(rest, "CTX")
             THEN Delegate(objective, ParseContext(rest))
             ELSE Panic
    ELSE Think(response_trimmed)

\* ---------------------------------------------------------------- strings
\* A String the code builds is the format template and its arguments; a String
\* taken as it is (a response, a tool's content) is the template "{}".
Str(t) == [fmt |-> "{}", arg |-> t]

\* e.to_string() and the Display of an error inside format!
Display(e) == <<e.err>>

\* ---------------------------------------------------------------- Option
None == [some |-> FALSE]
Some(v) == [some |-> TRUE, value |-> v]

\* ---------------------------------------------------------------- TokenUsage
\* amounts a reasoning backend reports for one call
TokenAmounts == {0, 1, 2, 3, 5, 10}

with_budget(limit) ==
    [prompt_tokens |-> 0, completion_tokens |-> 0, total_tokens |-> 0,
     budget_limit |-> limit]

\* add with the completion left out of the total
add_TotalPromptOnly(u, prompt, completion) ==
    [u EXCEPT !.prompt_tokens = @ + prompt,
              !.completion_tokens = @ + completion,
              !.total_tokens = @ + prompt]

add(u, prompt, completion) ==
    [u EXCEPT !.prompt_tokens = @ + prompt,
              !.completion_tokens = @ + completion,
              !.total_tokens = @ + (prompt + completion)]

\* is_exceeded with a strict comparison
is_exceeded_Strict(u) == u.total_tokens > u.budget_limit

is_exceeded(u) == u.total_tokens >= u.budget_limit

\* ---------------------------------------------------------------- Session
\* The session id, created_at, updated_at and the entries' timestamps are left
\* out: they are written from Uuid::new_v4 and the clock and never read.
SessionStatus == {"Running", "Paused", "Completed", "Failed"}

Goal == <<"x">>
ContextSummary == <<"x", "sp", "x">>

HistoryEntry(role, content, tool_call) ==
    [role |-> role, content |-> content, tool_call |-> tool_call]

ToolCallInfo(name, arguments, result) ==
    [name |-> name, arguments |-> arguments, result |-> result]

build_system_prompt(goal) == [fmt |-> "system_prompt", goal |-> goal]

NoSession == [exists |-> FALSE]

\* a session created without its system entry
create_session_NoSystem(goal) ==
    [exists |-> TRUE,
     id |-> "uuid",
     status |-> "Running",
     history |-> <<>>,
     task_state |-> [iteration |-> 0, goal |-> goal,
                     observations |-> <<>>, pending_actions |-> <<>>],
     token_usage |-> with_budget(config.default_budget)]

\* react.rs 148-168: the Session of a ComplexMission
create_session(goal) ==
    [exists |-> TRUE,
     id |-> "uuid",
     status |-> "Running",
     history |-> <<HistoryEntry("system", build_system_prompt(goal), None)>>,
     task_state |-> [iteration |-> 0, goal |-> goal,
                     observations |-> <<>>, pending_actions |-> <<>>],
     token_usage |-> with_budget(config.default_budget)]

\* ---------------------------------------------------------------- controller
\* ReActConfig::default()
DefaultConfig ==
    [max_iterations |-> 10, default_budget |-> 50000, persist_state |-> TRUE]

Configs ==
    [max_iterations : 0..MaxIter, default_budget : 0..MaxBudget,
     persist_state : BOOLEAN]

NoCalls == [llm |-> 0, tools |-> 0, compress |-> 0, delegate |-> 0,
            save |-> 0, add |-> 0]

\* the return of an awaited call: the capability, Ok or Err, and for a tool or
\* delegation answer its success flag
Returned(cap, r) ==
    [cap |-> cap, ok |-> r.ok,
     success |-> IF r.ok /\ cap \in {"tools", "delegate"} THEN r.value.success ELSE r.ok]
NoReturn == [cap |-> "none", ok |-> TRUE, success |-> TRUE]

\* a capability call is issued, and awaited until it returns
Issue(p, cap) == Append(p, cap)

\* a call the caller goes on without
Settle_Detached(p, cap) == p

\* the `.await` of a capability call returns
Settle(p, cap) == SelectSeq(p, LAMBDA c : c # cap)

\* no cancel or resume call was made yet
NoApi == [op |-> "none", id |-> "none", result |-> [ok |-> TRUE, value |-> "unit"]]

\* what every specification starts from: ReActController::new(config) and the
\* with_* builders, no request accepted yet
Fresh ==
    /\ compressor = TRUE
    /\ session = NoSession
    /\ iteration = 0
    /\ messages = <<>>
    /\ action = NoAction
    /\ step_result = None
    /\ outcome = None
    /\ raised = <<>>
    /\ calls = NoCalls
    /\ store = None
    /\ handed = <<>>
    /\ sum_p = 0
    /\ sum_c = 0
    /\ exceeded = None
    /\ intent = "none"
    /\ returned = NoReturn
    /\ pending = <<>>
    /\ api = NoApi

\* ---------------------------------------------------------------- parse_action alone
InitParse ==
    /\ Fresh
    /\ config = DefaultConfig
    /\ llm = FALSE /\ tools = FALSE /\ session_store = FALSE /\ delegator = FALSE
    /\ pc = "parse"
    /\ text \in Texts(MaxLen)
    /\ tracker = with_budget(DefaultConfig.default_budget)

ParseAction ==
    /\ pc = "parse"
    /\ action' = parse_action(text)
    /\ pc' = "parsed"
    /\ UNCHANGED <<config, llm, tools, session_store, compressor, delegator,
                   session, iteration, messages, step_result, outcome, raised,
                   calls, store, handed, text, tracker, sum_p, sum_c, exceeded,
                   intent, returned, pending, api>>

NextParse == ParseAction

SpecParse == InitParse /\ [][NextParse]_vars

\* ---------------------------------------------------------------- TokenUsage alone
InitBudget ==
    /\ Fresh
    /\ config = DefaultConfig
    /\ llm = FALSE /\ tools = FALSE /\ session_store = FALSE /\ delegator = FALSE
    /\ pc = "tracker"
    /\ text = <<>>
    /\ \E limit \in 0..MaxBudget : tracker = with_budget(limit)

TrackerAdd ==
    /\ pc = "tracker"
    /\ calls.add < MaxAdds
    /\ \E p \in TokenAmounts, c \in TokenAmounts :
          /\ tracker' = add(tracker, p, c)
          /\ sum_p' = sum_p + p
          /\ sum_c' = sum_c + c
    /\ calls' = [calls EXCEPT !.add = @ + 1]
    /\ exceeded' = None
    /\ UNCHANGED <<config, llm, tools, session_store, compressor, delegator, pc,
                   session, iteration, messages, action, step_result, outcome,
                   raised, store, handed, text, intent, returned, pending, api>>

TrackerIsExceeded ==
    /\ pc = "tracker"
    /\ exceeded = None
    /\ exceeded' = Some(is_exceeded(tracker))
    /\ UNCHANGED <<config, llm, tools, session_store, compressor, delegator, pc,
                   session, iteration, messages, action, step_result, outcome,
                   raised, calls, store, handed, text, tracker, sum_p, sum_c,
                   intent, returned, pending, api>>

NextBudget == TrackerAdd \/ TrackerIsExceeded

SpecBudget == InitBudget /\ [][NextBudget]_vars

\* ---------------------------------------------------------------- results and errors
Ok(v) == [ok |-> TRUE, value |-> v]
Err(e) == [ok |-> FALSE, error |-> e]

AgentText(t) == [type |-> "Text", text |-> t]
AgentError(message, code) == [type |-> "Error", message |-> message, code |-> code]

BudgetExceeded(used, limit) == [err |-> "BudgetExceeded", used |-> used, limit |-> limit]
MaxIterationsExceeded(n) == [err |-> "MaxIterationsExceeded", n |-> n]
ControllerError(msg) == [err |-> "Controller", msg |-> msg]
LlmError == [err |-> "Llm"]
CompressionError == [err |-> "Compression"]
ToolError == [err |-> "Tool"]
DelegationError == [err |-> "Delegation"]

\* ---------------------------------------------------------------- the capabilities' answers
\* LlmClient::chat: the texts a backend answers with, one per action variant
\* and one without any marker, and the usage it reports
ResponseTexts ==
    { <<"FA", "sp", "x">>,
      <<"TH", "sp", "x", "nl", "ACT", "sp", "x", "nl", "ARGS", "sp", "J">>,
      <<"TH", "sp", "x">>,
      <<"DEL", "sp", "x", "nl", "CTX", "sp", "x">>,
      <<"x">> }

LlmUsages ==
    { [prompt_tokens |-> 0, completion_tokens |-> 0],
      [prompt_tokens |-> 1, completion_tokens |-> 1] }

LlmResponses == [content : ResponseTexts, usage : LlmUsages]

\* ToolRegistry::execute: Ok(ToolOutput) with either success flag, or Err
ToolOutput(success, content) == [success |-> success, content |-> content]
ToolResults ==
    { Ok(ToolOutput(TRUE, <<"x">>)), Ok(ToolOutput(FALSE, <<"x">>)), Err(ToolError) }

\* Delegator::delegate: Ok(result) with either success flag, or Err
DelegationResults ==
    { Ok([success |-> TRUE, result |-> <<"x">>, error |-> None]),
      Ok([success |-> FALSE, result |-> <<>>, error |-> Some(<<"x">>)]),
      Ok([success |-> FALSE, result |-> <<>>, error |-> None]),
      Err(DelegationError) }

\* ContextCompressor::compress: Ok(view) or Err
CompressResults(m) == { Ok(<<Head(m)>>), Ok(m), Err(CompressionError) }

\* SessionStore::save
SaveResults == { Ok("unit"), Err([err |-> "Store"]) }

\* the visual_refs of a ComplexMission (none, as in tests::test_complex_mission_mock)
VisualRefs == {<<>>}

\* the request of a FastAction
FastToolName == <<"x">>
FastArgs == [json |-> "J"]

\* ---------------------------------------------------------------- helpers of execute
\* a view built from the latest entries only
build_messages_Recent(s) ==
    [i \in 1..(IF Len(s.history) > 2 THEN 2 ELSE Len(s.history)) |->
        LET e == s.history[Len(s.history) - (IF Len(s.history) > 2 THEN 2 ELSE Len(s.history)) + i]
        IN  [role |-> e.role, content |-> e.content, tool_calls |-> None]]

\* react.rs 215-225: the message view of the whole history
build_messages(s) ==
    [i \in 1..Len(s.history) |->
        [role |-> s.history[i].role, content |-> s.history[i].content,
         tool_calls |-> None]]

\* react.rs 346-359: the observation of a tool call
ToolObservation(name, r) ==
    IF r.ok
    THEN IF r.value.success
         THEN [fmt |-> "Tool '{}' succeeded:\n{}", name |-> name, arg |-> r.value.content]
         ELSE [fmt |-> "Tool '{}' failed:\n{}", name |-> name, arg |-> r.value.content]
    ELSE [fmt |-> "Tool '{}' error: {}", name |-> name, arg |-> Display(r.error)]

ToolUnavailable(name) ==
    [fmt |-> "Tool '{}' not available (no tools configured)", name |-> name]

\* react.rs 403-415: the observation of a delegation
DelegationObservation(r) ==
    IF r.ok
    THEN IF r.value.success
         THEN [fmt |-> "Subagent completed successfully:\n{}", arg |-> r.value.result]
         ELSE [fmt |-> "Subagent failed: {}",
               arg |-> IF r.value.error.some THEN r.value.error.value ELSE <<>>]
    ELSE [fmt |-> "Delegation error: {}", arg |-> Display(r.error)]

DelegationUnavailable(objective) ==
    [fmt |-> "Delegation not available (no delegator configured). Objective: {}",
     arg |-> objective]

\* a nudge without text
Nudge_Empty == [fmt |-> ""]

\* react.rs 387: the fixed text appended after a Think
Nudge ==
    [fmt |-> "Please take an action using a tool, or provide your FINAL ANSWER if the task is complete."]

\* push that inserts at the front
Push_Prepend(s, entry) == [s EXCEPT !.history = <<entry>> \o @]

\* session.history.push(entry)
Push(s, entry) == [s EXCEPT !.history = Append(@, entry)]

\* task_state.observations.push(observation)
Observe(s, observation) ==
    [s EXCEPT !.task_state.observations = Append(@, observation)]

\* a tool observation whose entry carries no tool-call record
RecordToolObservation_NoRecord(s, name, args, observation) ==
    Observe(Push(s, HistoryEntry("user",
                     [fmt |-> "OBSERVATION: {}", arg |-> observation],
                     None)),
            observation)

\* react.rs 361-376: history entry and task state of a tool observation
RecordToolObservation(s, name, args, observation) ==
    Observe(Push(s, HistoryEntry("user",
                     [fmt |-> "OBSERVATION: {}", arg |-> observation],
                     Some(ToolCallInfo(name, args, Some(observation))))),
            observation)

\* a delegation whose observation is left out of the task state
RecordDelegation_NoObserve(s, observation) ==
    Push(s, HistoryEntry("user",
                [fmt |-> "DELEGATION RESULT: {}", arg |-> observation],
                None))

\* react.rs 417-428: history entry and task state of a delegation observation
RecordDelegation(s, observation) ==
    Observe(Push(s, HistoryEntry("user",
                     [fmt |-> "DELEGATION RESULT: {}", arg |-> observation],
                     None)),
            observation)

\* a Think that appends nothing
RecordThink_Skip(s) == s

\* react.rs 385-390: the nudge after a Think
RecordThink(s) == Push(s, HistoryEntry("user", Nudge, None))

\* a FinalAnswer that lets the loop continue
FinalAnswerResult_None(answer) == None

\* react.rs 338-341: what the iteration returns on a FinalAnswer
FinalAnswerResult(answer) == Some(AgentText(Str(answer)))

\* an inclusive range, 0..=max_iterations
InRange_Inclusive(i) == i <= config.max_iterations

\* react.rs 525: `for iteration in 0..self.config.max_iterations` has a next item
InRange(i) == i < config.max_iterations

\* a result recorded with the wrong variant
Complete_AsFailed(s) == [s EXCEPT !.status = "Failed"]

\* react.rs 533: session.status = SessionStatus::Completed
Complete(s) == [s EXCEPT !.status = "Completed"]

\* a failure recorded with the wrong variant
Fail_Paused(s) == [s EXCEPT !.status = "Paused"]

\* react.rs 560, 572: session.status = SessionStatus::Failed
Fail(s) == [s EXCEPT !.status = "Failed"]

\* a save attempted whenever a store is bound
Persisting_IgnoreFlag == session_store

\* react.rs 536, 550: a save is attempted
Persisting == config.persist_state /\ session_store

\* the budget check placed before the save
AfterNone_SkipSave == "budget"

\* where execute goes after an iteration returned Ok(None)
AfterNone == IF Persisting THEN "save" ELSE "budget"

\* a failing save that ends the run
AfterSave_Propagate(r) == IF r.ok THEN "budget" ELSE "done"

\* react.rs 552-556: where execute goes after store.save returned r; the error
\* is only logged
AfterSave(r) == "budget"

\* a failing compress that falls back to the uncompressed view
AfterCompress_Fallback(r) == "chat"

\* react.rs 302, 312: `compress(..).await?` goes on to the chat or leaves execute
AfterCompress(r) == IF r.ok THEN "chat" ELSE "done"

\* react.rs 296-309: the view held after compress returned r
View(r, m) == IF r.ok THEN r.value ELSE m

\* a mock answer that leaves the goal out
MockResult_NoGoal(goal) ==
    AgentText([fmt |-> "Mock ReAct execution. Goal: {}. Configure LLM client for real execution.",
               arg |-> <<>>])

\* react.rs 451-458: the answer of an iteration without a reasoning backend
MockResult(goal) ==
    AgentText([fmt |-> "Mock ReAct execution. Goal: {}. Configure LLM client for real execution.",
               arg |-> goal])

\* a fast path that leaves the tool name out
FastMock_Anonymous(name) ==
    AgentText([fmt |-> "Fast path: would execute tool '{}'. Tools not configured.",
               name |-> <<>>])

\* react.rs 489-494: the fast path without a tool backend
FastMock(name) ==
    AgentText([fmt |-> "Fast path: would execute tool '{}'. Tools not configured.",
               name |-> name])

\* a fast path that hands the backend's error to the caller
FastResult_Propagate(r) ==
    IF r.ok
    THEN IF r.value.success
         THEN Ok(AgentText(Str(r.value.content)))
         ELSE Ok(AgentError(Str(r.value.content), "TOOL_ERROR"))
    ELSE r

\* react.rs 472-487: what the fast path returns for the backend's answer r
FastResult(r) ==
    IF r.ok
    THEN IF r.value.success
         THEN Ok(AgentText(Str(r.value.content)))
         ELSE Ok(AgentError(Str(r.value.content), "TOOL_ERROR"))
    ELSE Ok(AgentError(Str(Display(r.error)), "TOOL_NOT_FOUND"))

\* a fast path that also consults the reasoning backend
FastCalls_WithLlm(c) == [c EXCEPT !.tools = @ + 1, !.llm = @ + 1]

\* react.rs 472: the one call of the fast path
FastCalls(c) == [c EXCEPT !.tools = @ + 1]

\* an error of the iteration that marks the session failed
OnError_Fail(s) == [s EXCEPT !.status = "Failed"]

\* react.rs 312, 530: the `?` hands the error on and leaves the session as it is
OnError(s) == s

\* a task state that counts iterations from one
SetIteration_OneBased(s, i) == [s EXCEPT !.task_state.iteration = i + 1]

\* react.rs 526-528: task_state.iteration = iteration
SetIteration(s, i) == [s EXCEPT !.task_state.iteration = i]

\* a result followed by the budget check of a continuing iteration
AfterSome_Budget == AfterNone

\* react.rs 531: where execute goes after an iteration returned Some(result)
AfterSome == "terminal"

\* an iteration that always takes the reasoning path
HasLlm_Always == TRUE

\* react.rs 441: `if self.llm.is_some()` in execute_iteration
HasLlm == llm

\* react.rs 285-287: self.llm.as_ref().ok_or_else(..)? in execute_iteration_with_llm
RequireLlm ==
    IF llm THEN Ok("llm") ELSE Err(ControllerError("LLM client not configured"))

ctl == <<config, llm, tools, session_store, compressor, delegator>>
pure == <<text, tracker>>

\* execute returns r
Return(r) ==
    /\ pc' = "done"
    /\ outcome' = Some(r)
    /\ raised' = IF r.ok THEN raised ELSE Append(raised, r.error)

\* ---------------------------------------------------------------- Controller::execute
Init ==
    /\ Fresh
    /\ config \in Configs
    /\ llm \in BOOLEAN /\ tools \in BOOLEAN
    /\ session_store \in BOOLEAN /\ delegator \in BOOLEAN
    /\ pc = "idle"
    /\ text = <<>>
    /\ tracker = with_budget(0)

\* react.rs 467-495: FastAction up to the await of tools.execute
ExecuteFastAction ==
    /\ pc = "idle"
    /\ intent' = "FastAction"
    /\ IF tools
       THEN /\ pc' = "fast_tool"
            /\ calls' = FastCalls(calls)
            /\ pending' = Issue(pending, "tools")
            /\ UNCHANGED <<outcome, raised>>
       ELSE /\ Return(Ok(FastMock(FastToolName)))
            /\ UNCHANGED <<calls, pending>>
    /\ UNCHANGED <<ctl, pure, api, returned, session, iteration, messages, action, step_result,
                   store, handed, sum_p, sum_c, exceeded>>

\* react.rs 472-487: tools.execute returned on the fast path
FastToolReturn ==
    /\ pc = "fast_tool"
    /\ \E r \in ToolResults :
          /\ returned' = Returned("tools", r)
          /\ pending' = Settle(pending, "tools")
          /\ Return(FastResult(r))
    /\ UNCHANGED <<ctl, pure, api, intent, session, iteration, messages, action, step_result,
                   calls, store, handed, sum_p, sum_c, exceeded>>

\* react.rs 497-522: ComplexMission up to the loop
ExecuteComplexMission ==
    /\ pc = "idle"
    /\ intent' = "ComplexMission"
    /\ \E visual_refs \in VisualRefs :
          session' = Push(create_session(Goal),
                          HistoryEntry("user",
                              IF visual_refs = <<>>
                              THEN Str(ContextSummary)
                              ELSE [fmt |-> "{}\n\nReferences: {:?}",
                                    arg |-> ContextSummary, refs |-> visual_refs],
                              None))
    /\ iteration' = 0
    /\ pc' = "loop"
    /\ UNCHANGED <<ctl, pure, api, pending, returned, messages, action, step_result, outcome, raised,
                   calls, store, handed, sum_p, sum_c, exceeded>>

\* react.rs 525-530, 436-460, 285-309: the head of the loop and the start of an
\* iteration, up to its first await; react.rs 571-573 when the range is exhausted
LoopNext ==
    /\ pc = "loop"
    /\ IF InRange(iteration)
       THEN LET s == SetIteration(session, iteration) IN
            /\ session' = s
            /\ IF HasLlm
               THEN IF RequireLlm.ok
                    THEN /\ \E needs_compression \in BOOLEAN :
                               IF compressor /\ needs_compression
                               THEN /\ pc' = "compress"
                                    /\ calls' = [calls EXCEPT !.compress = @ + 1]
                                    /\ pending' = Issue(pending, "compress")
                               ELSE /\ pc' = "chat"
                                    /\ calls' = [calls EXCEPT !.llm = @ + 1]
                                    /\ pending' = Issue(pending, "llm")
                         /\ messages' = build_messages(s)
                         /\ UNCHANGED <<step_result, outcome, raised>>
                    ELSE /\ Return(RequireLlm)
                         /\ UNCHANGED <<messages, step_result, calls, pending>>
               ELSE /\ step_result' = Some(MockResult(s.task_state.goal))
                    /\ pc' = AfterSome
                    /\ UNCHANGED <<messages, calls, pending, outcome, raised>>
       ELSE /\ session' = Fail(session)
            /\ Return(Err(MaxIterationsExceeded(config.max_iterations)))
            /\ UNCHANGED <<messages, step_result, calls, pending>>
    /\ UNCHANGED <<ctl, pure, api, intent, returned, iteration, action, store, handed, sum_p, sum_c, exceeded>>

\* react.rs 301-302, 312: compressor.compress returned
CompressReturn ==
    /\ pc = "compress"
    /\ \E r \in CompressResults(messages) :
          /\ returned' = Returned("compress", r)
          /\ messages' = View(r, messages)
          /\ IF AfterCompress(r) = "chat"
             THEN /\ pc' = "chat"
                  /\ calls' = [calls EXCEPT !.llm = @ + 1]
                  /\ pending' = Issue(Settle(pending, "compress"), "llm")
                  /\ UNCHANGED <<outcome, raised>>
             ELSE /\ Return(r)
                  /\ pending' = Settle(pending, "compress")
                  /\ UNCHANGED calls
    /\ UNCHANGED <<ctl, pure, api, intent, session, iteration, action, step_result, store,
                   handed, sum_p, sum_c, exceeded>>

\* react.rs 312-432: llm.chat returned; up to the next await or the end of the iteration
ChatReturn ==
    /\ pc = "chat"
    /\ \/ /\ Return(Err(LlmError))
          /\ returned' = Returned("llm", Err(LlmError))
          /\ pending' = Settle(pending, "llm")
          /\ session' = OnError(session)
          /\ UNCHANGED <<messages, action, step_result, calls, sum_p, sum_c>>
       \/ \E response \in LlmResponses :
          LET s1 == [session EXCEPT !.token_usage =
                        add(@, response.usage.prompt_tokens,
                               response.usage.completion_tokens)]
              s2 == Push(s1, HistoryEntry("assistant", Str(response.content), None))
              a == parse_action(response.content)
          IN  /\ action' = a
              /\ returned' = Returned("llm", Ok(response))
              /\ messages' = <<>>
              /\ sum_p' = sum_p + response.usage.prompt_tokens
              /\ sum_c' = sum_c + response.usage.completion_tokens
              /\ UNCHANGED <<outcome, raised>>
              /\ CASE a.type = "FinalAnswer" ->
                        /\ session' = s2
                        /\ step_result' = FinalAnswerResult(a.text)
                        /\ pc' = IF FinalAnswerResult(a.text).some
                                 THEN AfterSome ELSE AfterNone
                        /\ calls' = [calls EXCEPT !.add = @ + 1]
                        /\ pending' = Settle(pending, "llm")
                   [] a.type = "ToolCall" ->
                        /\ UNCHANGED step_result
                        /\ IF tools
                           THEN /\ session' = s2
                                /\ pc' = "tool"
                                /\ calls' = [calls EXCEPT !.add = @ + 1, !.tools = @ + 1]
                                /\ pending' = Issue(Settle(pending, "llm"), "tools")
                           ELSE /\ session' = RecordToolObservation(s2, a.name, a.args,
                                                  ToolUnavailable(a.name))
                                /\ pc' = AfterNone
                                /\ calls' = [calls EXCEPT !.add = @ + 1]
                                /\ pending' = Settle(pending, "llm")
                   [] a.type = "Think" ->
                        /\ session' = RecordThink(s2)
                        /\ UNCHANGED step_result
                        /\ pc' = AfterNone
                        /\ calls' = [calls EXCEPT !.add = @ + 1]
                        /\ pending' = Settle(pending, "llm")
                   [] a.type = "Delegate" ->
                        /\ UNCHANGED step_result
                        /\ IF delegator
                           THEN /\ session' = s2
                                /\ pc' = "delegate"
                                /\ calls' = [calls EXCEPT !.add = @ + 1, !.delegate = @ + 1]
                                /\ pending' = Issue(Settle(pending, "llm"), "delegate")
                           ELSE /\ session' = RecordDelegation(s2,
                                                  DelegationUnavailable(a.objective))
                                /\ pc' = AfterNone
                                /\ calls' = [calls EXCEPT !.add = @ + 1]
                                /\ pending' = Settle(pending, "llm")
                   [] a.type = "Panic" ->
                        /\ session' = s2
                        /\ UNCHANGED step_result
                        /\ pc' = "panicked"
                        /\ calls' = [calls EXCEPT !.add = @ + 1]
                        /\ pending' = Settle(pending, "llm")
    /\ UNCHANGED <<ctl, pure, api, intent, iteration, store, handed, exceeded>>

\* react.rs 347-378: tools.execute returned inside the loop
ToolReturn ==
    /\ pc = "tool"
    /\ \E r \in ToolResults :
          /\ returned' = Returned("tools", r)
          /\ pending' = Settle(pending, "tools")
          /\ session' = RecordToolObservation(session, action.name, action.args,
                                              ToolObservation(action.name, r))
    /\ pc' = AfterNone
    /\ UNCHANGED <<ctl, pure, api, intent, iteration, messages, action, step_result, outcome,
                   raised, calls, store, handed, sum_p, sum_c, exceeded>>

\* react.rs 403-430: delegator.delegate returned
DelegateReturn ==
    /\ pc = "delegate"
    /\ \E r \in DelegationResults :
          /\ returned' = Returned("delegate", r)
          /\ pending' = Settle(pending, "delegate")
          /\ session' = RecordDelegation(session, DelegationObservation(r))
    /\ pc' = AfterNone
    /\ UNCHANGED <<ctl, pure, api, intent, iteration, messages, action, step_result, outcome,
                   raised, calls, store, handed, sum_p, sum_c, exceeded>>

\* react.rs 531-544: the iteration returned Some(result)
Terminal ==
    /\ pc = "terminal"
    /\ session' = Complete(session)
    /\ IF Persisting
       THEN /\ pc' = "save_final"
            /\ calls' = [calls EXCEPT !.save = @ + 1]
            /\ handed' = Append(handed, session')
            /\ pending' = Issue(pending, "save")
            /\ UNCHANGED <<outcome, raised>>
       ELSE /\ Return(Ok(step_result.value))
            /\ UNCHANGED <<calls, handed, pending>>
    /\ UNCHANGED <<ctl, pure, api, intent, returned, iteration, messages, action, step_result, store,
                   sum_p, sum_c, exceeded>>

\* react.rs 538-544: store.save returned after the terminal iteration
SaveFinalReturn ==
    /\ pc = "save_final"
    /\ \E r \in SaveResults :
          /\ returned' = Returned("save", r)
          /\ pending' = Settle(pending, "save")
          /\ store' = IF r.ok THEN Some(handed[Len(handed)]) ELSE store
    /\ Return(Ok(step_result.value))
    /\ UNCHANGED <<ctl, pure, api, intent, session, iteration, messages, action, step_result,
                   calls, handed, sum_p, sum_c, exceeded>>

\* react.rs 550-552: the iteration returned None and a save is attempted
Save ==
    /\ pc = "save"
    /\ calls' = [calls EXCEPT !.save = @ + 1]
    /\ handed' = Append(handed, session)
    /\ pc' = "saving"
    /\ pending' = Issue(pending, "save")
    /\ UNCHANGED <<ctl, pure, api, intent, returned, session, iteration, messages, action, step_result,
                   outcome, raised, store, sum_p, sum_c, exceeded>>

\* react.rs 552-556: store.save returned after a continuing iteration
SaveReturn ==
    /\ pc = "saving"
    /\ \E r \in SaveResults :
          /\ returned' = Returned("save", r)
          /\ pending' = Settle(pending, "save")
          /\ store' = IF r.ok THEN Some(handed[Len(handed)]) ELSE store
          /\ IF AfterSave(r) = "budget"
             THEN pc' = "budget" /\ UNCHANGED <<outcome, raised>>
             ELSE Return(r)
    /\ UNCHANGED <<ctl, pure, api, intent, session, iteration, messages, action, step_result,
                   calls, handed, sum_p, sum_c, exceeded>>

\* react.rs 558-566: the budget check after a continuing iteration
CheckBudget ==
    /\ pc = "budget"
    /\ exceeded' = Some(is_exceeded(session.token_usage))
    /\ IF is_exceeded(session.token_usage)
       THEN /\ session' = Fail(session)
            /\ Return(Err(BudgetExceeded(session.token_usage.total_tokens,
                                         session.token_usage.budget_limit)))
            /\ UNCHANGED iteration
       ELSE /\ iteration' = iteration + 1
            /\ pc' = "loop"
            /\ UNCHANGED <<session, outcome, raised>>
    /\ UNCHANGED <<ctl, pure, api, pending, intent, returned, messages, action, step_result, calls, store,
                   handed, sum_p, sum_c>>

Next ==
    \/ ExecuteFastAction
    \/ FastToolReturn
    \/ ExecuteComplexMission
    \/ LoopNext
    \/ CompressReturn
    \/ ChatReturn
    \/ ToolReturn
    \/ DelegateReturn
    \/ Terminal
    \/ SaveFinalReturn
    \/ Save
    \/ SaveReturn
    \/ CheckBudget

Spec == Init /\ [][Next]_vars

\* every awaited capability call returns and the caller keeps polling execute
FairSpec == Spec /\ WF_vars(Next)

\* ---------------------------------------------------------------- cancel and resume
\* the session ids a caller passes: the one create_session gave, and another
SessionIds == {"uuid", "other"}

\* every variable but api
program == <<config, llm, tools, session_store, compressor, delegator, pc, session,
             iteration, messages, action, step_result, outcome, raised, calls,
             store, handed, text, tracker, sum_p, sum_c, exceeded, intent,
             returned, pending>>

\* a cancel that pauses the session it names
CancelEffect_Pause(s, id) ==
    IF s.exists /\ s.id = id THEN [s EXCEPT !.status = "Paused"] ELSE s

\* react.rs 583-587: what cancel does to the session of a run
CancelEffect(s, id) == s

\* a resume that finds the session the store holds
ResumeResult_Stored(id) ==
    IF store.some /\ store.value.id = id
    THEN Ok("resumed")
    ELSE Err(ControllerError("Resume not yet implemented - coming in Phase 2 persistence"))

\* react.rs 578-581: what resume returns
ResumeResult(id) ==
    Err(ControllerError("Resume not yet implemented - coming in Phase 2 persistence"))

\* react.rs 583-587: Controller::cancel, called at any point of a run
Cancel ==
    /\ \E id \in SessionIds :
          /\ api' = [op |-> "cancel", id |-> id, result |-> Ok("unit")]
          /\ session' = CancelEffect(session, id)
    /\ UNCHANGED <<ctl, pure, pc, iteration, messages, action, step_result, outcome,
                   raised, calls, store, handed, sum_p, sum_c, exceeded, intent,
                   returned, pending>>

\* react.rs 578-581: Controller::resume, called at any point of a run
Resume ==
    /\ \E id \in SessionIds :
          api' = [op |-> "resume", id |-> id, result |-> ResumeResult(id)]
    /\ UNCHANGED program

NextApi == Next \/ Cancel \/ Resume

\* a controller with every capability bound and persistence on, the
\* configuration in which a run takes every kind of step
InitApi ==
    /\ Init
    /\ config.max_iterations = MaxIter /\ config.persist_state
    /\ config.default_budget = MaxBudget
    /\ llm /\ tools /\ session_store /\ delegator

\* execute with cancel and resume calls of other tasks interleaved
SpecApi == InitApi /\ [][NextApi]_vars

\* ================================================================ properties
\* what the properties say about text, stated without the decoder's helpers
IsWhite(c) == c = "sp" \/ c = "nl"
StartsWith(t, m) == Len(t) > 0 /\ t[1] = m
Occurs(t, m) == \E i \in 1..Len(t) : t[i] = m

\* the text without its leading and trailing white space
TrimmedText(s) ==
    CHOOSE t \in {SubSeq(s, i, j) : i \in 1..(Len(s) + 1), j \in 0..Len(s)} :
        \E i \in 1..(Len(s) + 1), j \in 0..Len(s) :
            /\ t = SubSeq(s, i, j)
            /\ \A k \in 1..Len(s) : (k < i \/ k > j) => IsWhite(s[k])
            /\ t = <<>> \/ (~IsWhite(t[1]) /\ ~IsWhite(t[Len(t)]))

NoMarker(t) ==
    /\ ~StartsWith(t, "FA") /\ ~Occurs(t, "ACT")
    /\ ~StartsWith(t, "TH") /\ ~Occurs(t, "DEL")

\* ---------------------------------------------------------------- the loop
N == config.max_iterations
History == session.history
Usage == session.token_usage

IsPrefix(a, b) == Len(a) <= Len(b) /\ SubSeq(b, 1, Len(a)) = a

\* the response of a history entry written by the reasoning step
Raw(entry) == entry.content.arg

\* no reasoning step of the run decoded a FinalAnswer
NoFinalDecoded ==
    \A i \in 1..Len(History) :
        History[i].role = "assistant" =>
            parse_action(Raw(History[i])).type # "FinalAnswer"

\* every reasoning step of the run got its answer (no capability call failed)
NoCapabilityError ==
    \A i \in 1..Len(raised) : raised[i].err \notin {"Llm", "Compression"}

\* the entries the current iteration has appended
EntriesOfStep == SubSeq(History, 3 + 2 * iteration, Len(History))

\* execute is past the end of the current reasoning step
StepReturned == pc \in {"save", "saving", "budget", "terminal", "save_final"}

\* C1 as stated: a run with a reasoning backend in which no step decodes
\* FinalAnswer ends with MaxIterationsExceeded(N)
C1_Original ==
    (pc = "done" /\ session.exists /\ llm /\ NoFinalDecoded /\ NoCapabilityError) =>
        outcome = Some(Err(MaxIterationsExceeded(N)))

C1_Safe ==
    (session.exists /\ llm) =>
        /\ calls.llm <= N
        /\ iteration <= N
        /\ Len(raised) <= 1
        /\ (pc = "done" /\ NoFinalDecoded) =>
              /\ Len(raised) = 1
              /\ outcome = Some(Err(raised[1]))
              /\ raised[1].err \in {"MaxIterationsExceeded", "BudgetExceeded",
                                    "Llm", "Compression"}
              /\ raised[1].err = "MaxIterationsExceeded" =>
                    /\ raised[1] = MaxIterationsExceeded(N)
                    /\ calls.llm = N /\ iteration = N
                    /\ N > 0 => Usage.total_tokens < Usage.budget_limit
              /\ raised[1].err = "BudgetExceeded" =>
                    Usage.total_tokens >= Usage.budget_limit

\* C1 (amended): a run with a reasoning backend never invokes it more than N
\* times and always ends; when it ends without a FinalAnswer decoded it ends
\* with exactly one error, which is MaxIterationsExceeded(N) after exactly N
\* iterations unless the budget was found exceeded after an iteration
\* (BudgetExceeded) or a reasoning or compression call failed (that error)
C1_MaxIterations == []C1_Safe /\ <>(pc = "done")

\* N iterations ran without a FinalAnswer and the run ended with MaxIterationsExceeded(N)
C1_Witness ==
    /\ pc = "done" /\ session.exists /\ llm /\ N >= 2
    /\ NoFinalDecoded
    /\ calls.llm = N
    /\ outcome = Some(Err(MaxIterationsExceeded(N)))

\* C2: when a reasoning step yields continue and total >= limit, the run sets
\* status Failed and fails with BudgetExceeded{used = total, limit} without
\* another iteration, and the check comes after that iteration's save attempt
C2_BudgetExceeded ==
    /\ []((pc = "budget" /\ Persisting) =>
              /\ calls.save = iteration + 1
              /\ Len(handed) = iteration + 1
              /\ handed[Len(handed)] = session)
    /\ [][/\ pc \in {"save", "saving"} =>
                /\ pc' \in {"saving", "budget"}
                /\ session' = session /\ calls'.llm = calls.llm
          /\ (pc = "budget" /\ Usage.total_tokens >= Usage.budget_limit) =>
                /\ pc' = "done"
                /\ session'.status = "Failed"
                /\ outcome' = Some(Err(BudgetExceeded(Usage.total_tokens,
                                                      Usage.budget_limit)))
                /\ calls' = calls /\ iteration' = iteration
                /\ session'.history = History]_vars

\* the budget ended a run after a save while iterations remained
C2_Witness ==
    /\ pc = "done" /\ session.exists /\ Persisting
    /\ iteration + 1 < N
    /\ Usage.total_tokens > 0
    /\ Len(handed) = iteration + 1
    /\ session.status = "Failed"
    /\ outcome = Some(Err(BudgetExceeded(Usage.total_tokens, Usage.budget_limit)))

\* C3: a decoded FinalAnswer is terminal: status Completed, one save attempt
\* when persistence is on, the text is returned, no further iteration or
\* reasoning call
C3_FinalAnswerTerminal ==
    /\ []((session.exists /\ llm /\ action.type = "FinalAnswer") =>
              LET last == History[Len(History)]
                  answer == TrimmedText(Tail(TrimmedText(Raw(last))))
              IN  /\ pc \in {"terminal", "save_final", "done"}
                  /\ last.role = "assistant"
                  /\ StartsWith(TrimmedText(Raw(last)), "FA")
                  /\ step_result = Some(AgentText(Str(answer)))
                  /\ calls.llm = iteration + 1
                  /\ pc = "terminal" => session.status = "Running"
                  /\ pc \in {"save_final", "done"} =>
                        /\ session.status = "Completed"
                        /\ calls.save = IF Persisting THEN iteration + 1 ELSE 0
                        /\ Persisting => handed[Len(handed)] = session
                  /\ pc = "done" => outcome = Some(Ok(AgentText(Str(answer)))))
    /\ [][(session.exists /\ action.type = "FinalAnswer") =>
              /\ calls'.llm = calls.llm /\ calls'.tools = calls.tools
              /\ calls'.delegate = calls.delegate /\ calls'.compress = calls.compress
              /\ iteration' = iteration
              /\ session'.history = History]_vars

\* a FinalAnswer in a later iteration ended the run after its save
C3_Witness ==
    /\ pc = "done" /\ session.exists /\ llm /\ Persisting
    /\ action.type = "FinalAnswer"
    /\ iteration >= 1
    /\ session.status = "Completed"
    /\ outcome.value.ok

\* C4: the status starts Running and changes at most once, from Running to
\* Completed or to Failed; Paused is never entered
C4_StatusTransitions ==
    /\ [](session.exists => session.status \in {"Running", "Completed", "Failed"})
    /\ [][/\ (~session.exists /\ session'.exists) => session'.status = "Running"
          /\ (session.exists /\ session'.status # session.status) =>
                /\ session.status = "Running"
                /\ session'.status \in {"Completed", "Failed"}]_vars

\* a run that continued and then failed
C4_Witness ==
    /\ pc = "done" /\ session.exists /\ session.status = "Failed"
    /\ Len(History) >= 4

\* C5: history is append-only: at every step the previous history is a prefix
\* of the new one
C5_AppendOnly ==
    [][(session.exists /\ session'.exists) =>
            IsPrefix(History, session'.history)]_vars

\* a run that appended entries in two iterations
C5_Witness ==
    /\ pc = "done" /\ session.exists /\ Len(History) >= 6

\* C6 as stated: every reasoning step appends one assistant entry and then one
\* observation/nudge entry, for every decoded action variant
C6_Original ==
    (session.exists /\ llm /\ StepReturned) =>
        /\ Len(EntriesOfStep) = 2
        /\ EntriesOfStep[1].role = "assistant"
        /\ EntriesOfStep[2].role = "user"

\* C6 (amended): every reasoning step appends one assistant entry holding the
\* raw response and then, for ToolCall, Think and Delegate, exactly one
\* observation/nudge entry; for FinalAnswer only the assistant entry
C6_EntriesPerStep ==
    (session.exists /\ llm) =>
        /\ \A k \in 0..(iteration - 1) :
              /\ History[3 + 2 * k].role = "assistant"
              /\ History[4 + 2 * k].role = "user"
        /\ pc \in {"loop", "compress", "chat"} => EntriesOfStep = <<>>
        /\ pc \in {"tool", "delegate"} =>
              /\ Len(EntriesOfStep) = 1
              /\ EntriesOfStep[1].role = "assistant"
              /\ parse_action(Raw(EntriesOfStep[1])) = action
        /\ StepReturned =>
              /\ EntriesOfStep[1].role = "assistant"
              /\ EntriesOfStep[1].tool_call = None
              /\ EntriesOfStep[1].content.fmt = "{}"
              /\ Raw(EntriesOfStep[1]) \in ResponseTexts
              /\ parse_action(Raw(EntriesOfStep[1])) = action
              /\ Len(EntriesOfStep) = IF action.type = "FinalAnswer" THEN 1 ELSE 2
              /\ action.type # "FinalAnswer" =>
                    /\ EntriesOfStep[2].role = "user"
                    /\ EntriesOfStep[2].content.fmt =
                          CASE action.type = "ToolCall" -> "OBSERVATION: {}"
                            [] action.type = "Delegate" -> "DELEGATION RESULT: {}"
                            [] action.type = "Think" -> Nudge.fmt
                    /\ EntriesOfStep[2].tool_call.some <=> action.type = "ToolCall"

\* a second reasoning step decoded a tool call and appended its two entries
C6_Witness ==
    /\ session.exists /\ llm /\ pc = "budget" /\ iteration = 1
    /\ action.type = "ToolCall"
    /\ Len(EntriesOfStep) = 2

\* C7: after any sequence of add calls from with_budget(limit), prompt is the
\* sum of the prompt arguments, completion the sum of the completion arguments,
\* total is prompt + completion, the limit is unchanged and no counter decreases
C7_Additive ==
    /\ [](/\ tracker.prompt_tokens = sum_p
          /\ tracker.completion_tokens = sum_c
          /\ tracker.total_tokens = tracker.prompt_tokens + tracker.completion_tokens)
    /\ [][/\ tracker'.budget_limit = tracker.budget_limit
          /\ tracker'.prompt_tokens >= tracker.prompt_tokens
          /\ tracker'.completion_tokens >= tracker.completion_tokens
          /\ tracker'.total_tokens >= tracker.total_tokens]_vars

\* add(10, 5) then add(3, 2)
C7_Witness ==
    /\ pc = "tracker" /\ calls.add = 2
    /\ tracker.prompt_tokens = 13 /\ tracker.completion_tokens = 7
    /\ tracker.total_tokens = 20

\* C8: is_exceeded() returns true exactly when total >= budget limit
C8_IsExceeded ==
    (pc = "tracker" /\ exceeded.some) =>
        (exceeded.value <=> tracker.total_tokens >= tracker.budget_limit)

\* the boundary: total has reached the limit exactly
C8_Witness ==
    /\ pc = "tracker" /\ exceeded.some /\ exceeded.value
    /\ tracker.total_tokens = tracker.budget_limit
    /\ tracker.total_tokens > 0

\* C9: decoding is total: every text gives exactly one of the four actions and
\* never fails, and a text matching no marker gives Think of the trimmed text
C9_DecodingTotal ==
    pc = "parsed" =>
        /\ action.type \in {"ToolCall", "FinalAnswer", "Think", "Delegate"}
        /\ NoMarker(TrimmedText(text)) => action = Think(TrimmedText(text))

\* a text with no marker and white space at its end was decoded
C9_Witness ==
    /\ pc = "parsed"
    /\ NoMarker(TrimmedText(text))
    /\ TrimmedText(text) # <<>>
    /\ IsWhite(text[Len(text)])
    /\ action.type = "Think"

\* C10: the markers are applied in strict precedence on the trimmed text:
\* FINAL ANSWER: prefix, then ACTION: anywhere, then THOUGHT: prefix, then
\* DELEGATE: anywhere, then Think
C10_Precedence ==
    pc = "parsed" =>
        LET t == TrimmedText(text) IN
        action.type = IF StartsWith(t, "FA") THEN "FinalAnswer"
                      ELSE IF Occurs(t, "ACT") THEN "ToolCall"
                      ELSE IF StartsWith(t, "TH") THEN "Think"
                      ELSE IF Occurs(t, "DEL") THEN "Delegate"
                      ELSE "Think"

\* a text that starts with THOUGHT: and contains ACTION: and DELEGATE: was decoded
C10_Witness ==
    /\ pc = "parsed"
    /\ StartsWith(text, "TH") /\ Occurs(text, "ACT") /\ Occurs(text, "DEL")
    /\ action.type = "ToolCall"

\* ---------------------------------------------------------------- observations
Observations == session.task_state.observations
LastOf(q) == q[Len(q)]

\* the step in which a decoded Delegate gets its outcome: the delegator's
\* answer, or the decoding itself when no delegator is bound
DelegationSettles ==
    \/ pc = "delegate"
    \/ pc = "chat" /\ pc' # "done" /\ action'.type = "Delegate" /\ ~delegator

\* the text a delegation outcome is observed as
DelegationFormat ==
    IF pc = "chat" THEN "Delegation not available (no delegator configured). Objective: {}"
    ELSE IF ~returned'.ok THEN "Delegation error: {}"
    ELSE IF returned'.success THEN "Subagent completed successfully:\n{}"
    ELSE "Subagent failed: {}"

\* C11: whatever a delegation comes to (success, failure, capability error, no
\* delegator bound), exactly one user entry with the observation is appended
\* to the history, the observation is appended to the task state, the step
\* continues and the run does not fail
C11_DelegationObserved ==
    [][DelegationSettles =>
        LET o == LastOf(session'.task_state.observations)
            e == LastOf(session'.history)
            before == IF pc = "chat" THEN Len(History) + 1 ELSE Len(History)
        IN  /\ Len(session'.history) = before + 1
            /\ SubSeq(session'.history, 1, Len(History)) = History
            /\ pc = "chat" => session'.history[before].role = "assistant"
            /\ Len(session'.task_state.observations) = Len(Observations) + 1
            /\ session'.task_state.observations = Append(Observations, o)
            /\ e.role = "user"
            /\ e.content = [fmt |-> "DELEGATION RESULT: {}", arg |-> o]
            /\ e.tool_call = None
            /\ o.fmt = DelegationFormat
            /\ pc' \in {"save", "budget"}
            /\ session'.status = "Running"
            /\ outcome' = None /\ raised' = <<>>]_vars

\* the delegator returned an error and the step went on to the budget check
C11_Witness ==
    /\ pc = "budget"
    /\ returned = [cap |-> "delegate", ok |-> FALSE, success |-> FALSE]
    /\ LastOf(Observations).fmt = "Delegation error: {}"
    /\ LastOf(History).content.arg = LastOf(Observations)
    /\ session.status = "Running"

\* the step in which a decoded ToolCall gets its outcome: the backend's
\* answer, or the decoding itself when no tool backend is bound
ToolSettles ==
    \/ pc = "tool"
    \/ pc = "chat" /\ pc' # "done" /\ action'.type = "ToolCall" /\ ~tools

\* the text a tool outcome is observed as
ToolFormat ==
    IF pc = "chat" THEN "Tool '{}' not available (no tools configured)"
    ELSE IF ~returned'.ok THEN "Tool '{}' error: {}"
    ELSE IF returned'.success THEN "Tool '{}' succeeded:\n{}"
    ELSE "Tool '{}' failed:\n{}"

\* C12: whatever a tool call inside the loop comes to (success, tool-level
\* failure, backend error, no tool backend bound), exactly one user entry with
\* the tool-call record (name, arguments, result) is appended to the history,
\* the observation is appended to the task state, the step continues and the
\* session status stays as it was
C12_ToolObserved ==
    [][ToolSettles =>
        LET o == LastOf(session'.task_state.observations)
            e == LastOf(session'.history)
            before == IF pc = "chat" THEN Len(History) + 1 ELSE Len(History)
        IN  /\ Len(session'.history) = before + 1
            /\ SubSeq(session'.history, 1, Len(History)) = History
            /\ pc = "chat" => session'.history[before].role = "assistant"
            /\ Len(session'.task_state.observations) = Len(Observations) + 1
            /\ session'.task_state.observations = Append(Observations, o)
            /\ e.role = "user"
            /\ e.content = [fmt |-> "OBSERVATION: {}", arg |-> o]
            /\ e.tool_call.some
            /\ e.tool_call.value.name = action'.name
            /\ e.tool_call.value.arguments = action'.args
            /\ e.tool_call.value.result = Some(o)
            /\ o.fmt = ToolFormat /\ o.name = action'.name
            /\ pc' \in {"save", "budget"}
            /\ session'.status = session.status /\ session.status = "Running"
            /\ outcome' = None /\ raised' = <<>>]_vars

\* the tool backend returned an error inside the loop and the step went on
C12_Witness ==
    /\ pc = "budget"
    /\ returned = [cap |-> "tools", ok |-> FALSE, success |-> FALSE]
    /\ LastOf(Observations).fmt = "Tool '{}' error: {}"
    /\ LastOf(History).tool_call = Some(ToolCallInfo(action.name, action.args,
                                                      Some(LastOf(Observations))))
    /\ session.status = "Running"

\* ---------------------------------------------------------------- compression
\* the view holds one message per history entry, in order
FullView(view, history) ==
    /\ Len(view) = Len(history)
    /\ \A i \in 1..Len(history) :
          view[i].role = history[i].role /\ view[i].content = history[i].content

\* C13: when compress fails, its error is what execute returns and the
\* iteration is aborted: the reasoning backend is not invoked in that
\* iteration and no history entry or token usage is added
C13_CompressFailureAborts ==
    [][pc = "compress" =>
        /\ calls.llm = iteration
        /\ returned'.cap = "compress"
        /\ ~returned'.ok =>
              /\ pc' = "done"
              /\ outcome' = Some(Err(CompressionError))
              /\ raised' = Append(raised, CompressionError)
              /\ calls'.llm = calls.llm /\ calls'.add = calls.add
              /\ session'.history = History
              /\ session'.token_usage = Usage]_vars

\* compress failed in the second iteration: one reasoning call, four entries
C13_Witness ==
    /\ pc = "done"
    /\ outcome = Some(Err(CompressionError))
    /\ returned = [cap |-> "compress", ok |-> FALSE, success |-> FALSE]
    /\ iteration = 1 /\ calls.llm = 1 /\ calls.compress >= 1
    /\ Len(History) = 4

\* C14: compression replaces only the view of one reasoning call: the view of
\* every iteration is built from the whole history, building and compressing
\* it leave the session as it was whatever the compressor returns, and the
\* reasoning step appends to the whole history
C14_ViewOnly ==
    [][/\ (pc = "loop" /\ pc' \in {"compress", "chat"}) =>
             /\ FullView(messages', History)
             /\ session'.history = History
       /\ pc = "compress" =>
             /\ session' = session
             /\ FullView(messages, History)
       /\ pc = "chat" => IsPrefix(History, session'.history)]_vars

\* the second iteration's view was compressed to one message as the first
\* one's was, and the history still holds its four entries
C14_Witness ==
    /\ pc = "chat"
    /\ iteration = 1 /\ calls.compress = 2
    /\ returned = [cap |-> "compress", ok |-> TRUE, success |-> TRUE]
    /\ Len(messages) = 1 /\ Len(History) = 4

\* ---------------------------------------------------------------- persistence
\* the iterations of the run that have completed, with a continue or a result
CompletedIterations ==
    IF pc \in {"saving", "budget", "save_final"} THEN iteration + 1
    ELSE IF pc = "done" /\ (outcome.value.ok \/ outcome.value.error.err = "BudgetExceeded")
         THEN iteration + 1
    ELSE iteration

\* C15: with persist_state set and a store bound, one save has been attempted
\* for every completed iteration by the time the next iteration starts or the
\* result is returned; with persist_state unset or no store bound no save is
\* ever attempted
C15_OneSavePerIteration ==
    /\ Len(handed) = calls.save
    /\ intent = "ComplexMission" =>
          IF config.persist_state /\ session_store
          THEN pc \notin {"terminal", "save"} => calls.save = CompletedIterations
          ELSE calls.save = 0 /\ store = None
    /\ intent # "ComplexMission" => calls.save = 0

\* a run that continued once and then returned a result attempted two saves
C15_Witness ==
    /\ pc = "done" /\ outcome.value.ok
    /\ config.persist_state /\ session_store
    /\ iteration = 1 /\ calls.save = 2
    /\ handed[1].status = "Running" /\ handed[2].status = "Completed"

\* C16: what a save returns never changes a run: the step in which store.save
\* returns leaves the history, the usage, the status and the errors raised as
\* they were and goes on to the same place with the same result whether the
\* save succeeded or failed, and no error of the store is ever raised
C16_SaveFailureHarmless ==
    [][/\ pc = "saving" =>
             /\ returned'.cap = "save"
             /\ pc' = "budget"
             /\ session' = session /\ iteration' = iteration
             /\ outcome' = None /\ raised' = raised
       /\ pc = "save_final" =>
             /\ returned'.cap = "save"
             /\ pc' = "done"
             /\ session' = session /\ iteration' = iteration
             /\ outcome' = Some(Ok(step_result.value)) /\ raised' = raised
       /\ \A i \in 1..Len(raised') : raised'[i].err # "Store"]_vars

\* every save of a run failed, the last one after the continuing iteration of
\* a run that went on to return BudgetExceeded
C16_Witness ==
    /\ pc = "done"
    /\ returned = [cap |-> "save", ok |-> FALSE, success |-> FALSE]
    /\ calls.save >= 1 /\ store = None
    /\ outcome = Some(Err(BudgetExceeded(Usage.total_tokens, Usage.budget_limit)))
    /\ session.status = "Failed"

\* ---------------------------------------------------------------- the fast path
\* what execute has returned to the caller of a FastAction
FastDone == intent = "FastAction" /\ pc = "done"
Result == outcome.value.value

\* C17: a FastAction never returns an error: with a tool backend bound, a
\* success gives a Text with the tool's content, a tool-level failure a
\* structured Error with a code, a backend error a structured Error with a code
C17_FastActionResult ==
    FastDone =>
        /\ outcome.some /\ outcome.value.ok /\ raised = <<>>
        /\ tools =>
              /\ returned.cap = "tools"
              /\ (returned.ok /\ returned.success) =>
                    Result = [type |-> "Text", text |-> [fmt |-> "{}", arg |-> <<"x">>]]
              /\ (returned.ok /\ ~returned.success) =>
                    /\ Result.type = "Error" /\ Result.code = "TOOL_ERROR"
                    /\ Result.message = [fmt |-> "{}", arg |-> <<"x">>]
              /\ ~returned.ok =>
                    /\ Result.type = "Error" /\ Result.code = "TOOL_NOT_FOUND"

\* the tool answered a FastAction with its success flag unset
C17_Witness ==
    /\ FastDone /\ tools
    /\ returned = [cap |-> "tools", ok |-> TRUE, success |-> FALSE]
    /\ outcome.value.ok /\ Result.type = "Error" /\ Result.code = "TOOL_ERROR"

\* the bound backend does not know the tool of the FastAction: its call fails
UnknownTool == tools /\ returned.cap = "tools" /\ ~returned.ok

\* C18 as stated: a FastAction without a tool backend, and one whose tool is
\* unknown to the bound backend, each return a Text that mentions the tool name
C18_Original ==
    (FastDone /\ (~tools \/ UnknownTool)) =>
        /\ outcome.value.ok
        /\ Result.type = "Text"
        /\ Result.text.name = FastToolName

\* C18: a FastAction without a tool backend returns a Text that mentions the
\* tool name; one whose tool is unknown to the bound backend returns a
\* structured Error with code TOOL_NOT_FOUND and the backend's error as its
\* message; neither raises
C18_FastUnbound ==
    (FastDone /\ (~tools \/ UnknownTool)) =>
        /\ outcome.value.ok /\ raised = <<>>
        /\ ~tools =>
              /\ Result.type = "Text"
              /\ Result.text.name = <<"x">>
              /\ calls.tools = 0
        /\ UnknownTool =>
              /\ Result.type = "Error" /\ Result.code = "TOOL_NOT_FOUND"
              /\ Result.message = [fmt |-> "{}", arg |-> <<"Tool">>]

\* the bound backend failed the call of a FastAction
C18_Witness ==
    /\ FastDone /\ UnknownTool
    /\ outcome.value.ok /\ Result.code = "TOOL_NOT_FOUND"

\* C19: a FastAction bypasses the loop: no Session is created, the reasoning
\* backend, the compressor, the delegator and the session store are never
\* invoked, and at most one call is made, to the tool backend
C19_FastBypass ==
    intent = "FastAction" =>
        /\ session = [exists |-> FALSE]
        /\ calls.llm = 0 /\ calls.compress = 0 /\ calls.delegate = 0
        /\ calls.save = 0 /\ calls.add = 0
        /\ handed = <<>> /\ store = None /\ messages = <<>>
        /\ calls.tools <= 1
        /\ calls.tools = 1 <=> tools

\* a FastAction returned after its one tool call with every capability bound
C19_Witness ==
    /\ FastDone
    /\ llm /\ tools /\ delegator /\ session_store /\ config.persist_state
    /\ calls.tools = 1
    /\ returned = [cap |-> "tools", ok |-> TRUE, success |-> TRUE]

\* ---------------------------------------------------------------- no reasoning backend
Mocked == intent = "ComplexMission" /\ ~llm /\ N >= 1

C20_Safe ==
    Mocked =>
        /\ iteration = 0
        /\ pc \in {"loop", "terminal", "save_final", "done"}
        /\ calls.llm = 0 /\ calls.tools = 0 /\ calls.compress = 0 /\ calls.delegate = 0
        /\ Len(History) = 2
        /\ History[1].role = "system" /\ History[2].role = "user"
        /\ pc = "done" =>
              /\ outcome.value.ok /\ raised = <<>>
              /\ Result.type = "Text"
              /\ Result.text.arg = <<"x">> /\ Result.text.arg = session.task_state.goal
              /\ session.status = "Completed"

\* C20: a ComplexMission without a reasoning backend and with max_iterations
\* >= 1 ends in its first iteration with a Text that holds the goal, status
\* Completed, no tool, compression or delegation call and no history entry
\* beyond the system and the user entry
C20_MockMission == []C20_Safe /\ (Mocked ~> pc = "done")

\* a run without reasoning backend returned in the first of two iterations,
\* with a tool backend and a delegator bound
C20_Witness ==
    /\ Mocked /\ pc = "done" /\ N = 2
    /\ tools /\ delegator
    /\ Result.text.arg = session.task_state.goal
    /\ session.status = "Completed" /\ Len(History) = 2

\* ---------------------------------------------------------------- unbound capabilities
\* the capability the requested entry path works with is not bound
Unbound ==
    \/ intent = "ComplexMission" /\ ~llm
    \/ intent = "FastAction" /\ ~tools

\* C21 as stated: a request whose capability is not bound fails with a
\* misconfiguration error, with no Session created and no capability invoked
C21_Original ==
    (pc = "done" /\ Unbound) =>
        /\ ~outcome.value.ok
        /\ outcome.value.error.err = "Controller"
        /\ ~session.exists
        /\ calls = NoCalls

\* C21: execute never fails with a misconfiguration error: a ComplexMission
\* without reasoning backend creates its Session and returns the fallback
\* Text (MaxIterationsExceeded(0) when max_iterations is 0), a FastAction
\* without tool backend returns a Text and creates no Session
C21_NoMisconfiguration ==
    /\ \A i \in 1..Len(raised) : raised[i].err # "Controller"
    /\ (pc = "done" /\ intent = "ComplexMission" /\ ~llm) =>
          /\ session.exists
          /\ IF N >= 1
             THEN outcome.value.ok /\ Result.type = "Text" /\ session.status = "Completed"
             ELSE outcome = Some(Err(MaxIterationsExceeded(0)))
    /\ (pc = "done" /\ intent = "FastAction" /\ ~tools) =>
          /\ outcome.value.ok /\ Result.type = "Text"
          /\ ~session.exists /\ calls = NoCalls

\* a ComplexMission without reasoning backend returned a result after its
\* Session was created and handed to the store
C21_Witness ==
    /\ pc = "done" /\ intent = "ComplexMission" /\ ~llm
    /\ N = 1 /\ config.persist_state /\ session_store
    /\ session.exists /\ calls.save = 1 /\ handed[1].id = session.id
    /\ outcome.value.ok

\* ---------------------------------------------------------------- cancel and resume
\* C22: cancel is acknowledged with success for every session id and leaves
\* an in-flight run as it is: the step of a cancel changes no variable of the
\* run, so the run's later steps, history, status and result are the same
C22_CancelNoEffect ==
    [][(api' # api /\ api'.op = "cancel") =>
          /\ api'.result = [ok |-> TRUE, value |-> "unit"]
          /\ UNCHANGED program]_vars

\* the running session's id was cancelled while its tool call was outstanding
C22_Witness ==
    /\ session.exists
    /\ api.op = "cancel" /\ api.id = session.id
    /\ pc = "tool" /\ pending = <<"tools">>
    /\ session.status = "Running"

\* C23: resume fails with the not-implemented error for every session id in
\* every state, the ids of persisted and of running sessions included, and
\* changes no session or store state
C23_ResumeFails ==
    [][(api' # api /\ api'.op = "resume") =>
          /\ ~api'.result.ok
          /\ api'.result.error.err = "Controller"
          /\ api'.result.error.msg = "Resume not yet implemented - coming in Phase 2 persistence"
          /\ UNCHANGED program]_vars

\* resume was called with the id of the running session the store holds
C23_Witness ==
    /\ session.exists
    /\ api.op = "resume" /\ api.id = session.id
    /\ ~api.result.ok
    /\ store.some /\ store.value.id = api.id
    /\ pc = "chat" /\ iteration = 1 /\ session.status = "Running"

\* ---------------------------------------------------------------- sequencing
\* C24: a run is strictly sequential: at most one capability call is
\* outstanding, a call is issued only in a step in which the outstanding one
\* has returned, and the next iteration starts only after the save of the
\* iteration before has returned
C24_Sequential ==
    [][/\ Len(pending) <= 1 /\ Len(pending') <= 1
       /\ (pending # <<>> /\ pending' # pending) => returned'.cap = pending[1]
       /\ (pending # <<>> /\ pending' = pending) => UNCHANGED <<pc, session, calls>>
       /\ iteration' = iteration + 1 =>
             /\ pending = <<>> /\ pending' = <<>>
             /\ (config.persist_state /\ session_store) =>
                   returned.cap = "save" /\ calls.save = iteration + 1]_vars

\* the second iteration is about to start after a reasoning call, a tool call
\* and a save, each returned before the next was issued
C24_Witness ==
    /\ pc = "loop" /\ iteration = 1
    /\ calls.llm = 1 /\ calls.tools = 1 /\ calls.save = 1
    /\ returned.cap = "save" /\ pending = <<>>

\* ---------------------------------------------------------------- Think
\* C25: on a Think, the fallback for a text without marker included, exactly
\* one user entry with the fixed nudge text and no tool-call record is
\* appended, the step continues, and the observations and the pending
\* actions of the task state are left as they were
C25_ThinkNudge ==
    [][(pc = "chat" /\ pc' # "done" /\ action'.type = "Think") =>
        LET e == LastOf(session'.history) IN
        /\ Len(session'.history) = Len(History) + 2
        /\ SubSeq(session'.history, 1, Len(History)) = History
        /\ session'.history[Len(History) + 1].role = "assistant"
        /\ e.role = "user"
        /\ e.content = [fmt |-> "Please take an action using a tool, or provide your FINAL ANSWER if the task is complete."]
        /\ e.tool_call = None
        /\ session'.task_state.observations = Observations
        /\ session'.task_state.pending_actions = session.task_state.pending_actions
        /\ pc' \in {"save", "budget"}
        /\ outcome' = None /\ session'.status = "Running"]_vars

\* a response without any marker was decoded as Think and answered with the nudge
C25_Witness ==
    /\ pc = "budget" /\ action.type = "Think"
    /\ Len(History) = 4
    /\ NoMarker(Raw(History[3])) /\ action.text = Raw(History[3])
    /\ History[4].role = "user" /\ History[4].tool_call = None
    /\ Observations = <<>>

\* ---------------------------------------------------------------- task progress
TaskIteration == session.task_state.iteration

\* the index of the iteration started last (0 before the first one)
LatestStarted ==
    IF iteration > 0 /\ (pc = "loop" \/ (pc = "done" /\ iteration = N))
    THEN iteration - 1
    ELSE iteration

\* C26 as stated: throughout a ComplexMission run the task-progress iteration
\* is below max_iterations
C26_Original == session.exists => TaskIteration < N

C26_Safe ==
    session.exists =>
        /\ TaskIteration = LatestStarted
        /\ N >= 1 => TaskIteration < N
        /\ N = 0 => TaskIteration = 0
        /\ \A i \in 1..Len(handed) : handed[i].task_state.iteration = i - 1

\* C26: each iteration sets the task-progress iteration to its zero-based
\* index when it starts, so it is the index of the iteration started last
\* (the number of iterations that continued before it); it is below
\* max_iterations whenever max_iterations >= 1, also after
\* MaxIterationsExceeded, and stays at its initial 0 when max_iterations is 0
C26_TaskIteration ==
    /\ []C26_Safe
    /\ [][(pc = "loop" /\ pc' # "done") =>
              session'.task_state.iteration = iteration]_vars

\* the run ended with MaxIterationsExceeded(2) and the task state holds 1
C26_Witness ==
    /\ pc = "done" /\ N = 2
    /\ outcome = Some(Err(MaxIterationsExceeded(2)))
    /\ TaskIteration = 1 /\ iteration = 2

\* ---------------------------------------------------------------- snapshots
\* C27: every snapshot handed to the store has status Running or Completed
\* (Completed only the last one): Failed is assigned after the save of the
\* iteration on budget exhaustion and without a save on max-iterations
\* exhaustion, so the last snapshot of a failed run has status Running
C27_SnapshotStatus ==
    /\ \A i \in 1..Len(handed) :
          /\ handed[i].status \in {"Running", "Completed"}
          /\ handed[i].status = "Completed" => i = Len(handed)
    /\ store.some => store.value.status \in {"Running", "Completed"}
    /\ (session.exists /\ session.status = "Failed" /\ handed # <<>>) =>
          LastOf(handed).status = "Running"

\* a run failed on max-iterations exhaustion after two saved iterations
C27_Witness ==
    /\ pc = "done" /\ session.exists
    /\ session.status = "Failed"
    /\ outcome = Some(Err(MaxIterationsExceeded(N)))
    /\ Len(handed) = 2 /\ handed[2].status = "Running"
    /\ store = Some(handed[2])

\* ---------------------------------------------------------------- reasoning failure
\* C28: when the reasoning call fails, execute returns that error at once: in
\* that iteration no usage is added, no history entry appended, no tool,
\* delegation or save call made, and the session status stays Running
C28_LlmFailure ==
    [][(pc = "chat" /\ ~returned'.ok) =>
          /\ returned'.cap = "llm"
          /\ pc' = "done"
          /\ outcome' = Some([ok |-> FALSE, error |-> [err |-> "Llm"]])
          /\ raised' = Append(raised, [err |-> "Llm"])
          /\ session'.token_usage = Usage /\ calls'.add = calls.add
          /\ session'.history = History /\ Len(History) = 2 + 2 * iteration
          /\ calls' = calls /\ handed' = handed /\ store' = store
          /\ calls.save = (IF config.persist_state /\ session_store THEN iteration ELSE 0)
          /\ pending' = <<>>
          /\ session'.status = "Running"]_vars

\* the reasoning call of the second iteration failed after a first iteration
\* that called a tool
C28_Witness ==
    /\ pc = "done" /\ session.exists
    /\ outcome = Some(Err(LlmError))
    /\ returned = [cap |-> "llm", ok |-> FALSE, success |-> FALSE]
    /\ iteration = 1 /\ calls.llm = 2 /\ calls.tools = 1
    /\ Len(History) = 4 /\ session.status = "Running"

\* ---------------------------------------------------------------- where the budget is checked
C29_Safe ==
    (intent = "ComplexMission" /\ session.exists) =>
        /\ exceeded.some => (iteration >= 1 \/ pc = "done")
        /\ (pc \in {"compress", "chat"} /\ iteration = 0) =>
              exceeded = None /\ Usage.total_tokens = 0
        /\ (pc = "done" /\ outcome.value.ok) =>
              /\ session.status = "Completed"
              /\ llm => /\ LastOf(History).role = "assistant"
                        /\ StartsWith(TrimmedText(Raw(LastOf(History))), "FA")
                        /\ Result.type = "Text"

\* C29: the budget is checked only after a step that continues: a step that
\* decodes FinalAnswer goes on to the result, with status Completed and the
\* answer, whatever the cumulative total is, and the first reasoning call is
\* made with no budget check before it, also with a limit of 0
C29_BudgetAfterContinue ==
    /\ []C29_Safe
    /\ [][/\ exceeded' # exceeded => (pc = "budget" /\ step_result = None)
          /\ (pc = "chat" /\ pc' # "done" /\ action'.type = "FinalAnswer") =>
                /\ pc' = "terminal"
                /\ step_result'.some /\ step_result'.value.type = "Text"
                /\ exceeded' = exceeded
          /\ pc \in {"terminal", "save_final"} =>
                /\ pc' \in {"save_final", "done"}
                /\ exceeded' = exceeded
                /\ session'.status = "Completed"
                /\ pc' = "done" => outcome' = Some([ok |-> TRUE, value |-> step_result.value])
         ]_vars

\* a run with budget limit 0 made its reasoning call and returned the
\* FinalAnswer with the total above the limit and no budget check made
C29_Witness ==
    /\ pc = "done" /\ session.exists /\ llm
    /\ config.default_budget = 0
    /\ Usage.total_tokens > Usage.budget_limit
    /\ outcome.value.ok /\ session.status = "Completed"
    /\ exceeded = None /\ calls.llm = 1

\* ---------------------------------------------------------------- which error ends a run
C30_Safe ==
    (pc = "done" /\ session.exists /\ ~outcome.value.ok
        /\ outcome.value.error.err = "MaxIterationsExceeded") =>
        /\ outcome.value.error = [err |-> "MaxIterationsExceeded", n |-> N]
        /\ iteration = N
        /\ Usage.total_tokens < Usage.budget_limit \/ N = 0
        /\ IF N = 0
           THEN calls = NoCalls /\ exceeded = None /\ Len(History) = 2
           ELSE exceeded = Some(FALSE) /\ calls.llm = N

\* C30: BudgetExceeded comes before MaxIterationsExceeded: a continuing step
\* that leaves total >= limit ends the run with BudgetExceeded, on the last
\* permitted iteration too; MaxIterationsExceeded is returned only when the
\* budget was not exceeded after any of the max_iterations iterations, or
\* when max_iterations is 0 and nothing was called
C30_BudgetFirst ==
    /\ []C30_Safe
    /\ [][(pc = "budget" /\ Usage.total_tokens >= Usage.budget_limit) =>
              /\ pc' = "done"
              /\ outcome' = Some([ok |-> FALSE,
                                  error |-> [err |-> "BudgetExceeded",
                                             used |-> Usage.total_tokens,
                                             limit |-> Usage.budget_limit]])
              /\ iteration' = iteration]_vars

\* the last permitted iteration continued with the total at the limit and
\* the run failed with BudgetExceeded
C30_Witness ==
    /\ pc = "done" /\ session.exists
    /\ N = 2 /\ iteration = N - 1 /\ calls.llm = 2
    /\ Usage.total_tokens = Usage.budget_limit
    /\ outcome = Some(Err(BudgetExceeded(Usage.total_tokens, Usage.budget_limit)))

\* ---------------------------------------------------------------- the shape of the history
\* the iterations of the run that completed with a continue
Continued ==
    IF pc \in {"save", "saving", "budget"} THEN iteration + 1
    ELSE IF pc = "done" /\ ~outcome.value.ok /\ outcome.value.error.err = "BudgetExceeded"
         THEN iteration + 1
    ELSE iteration

\* the reasoning step of the current iteration has appended its response and
\* the entry that answers it has not been, or will never be, appended
Unpaired ==
    \/ pc \in {"tool", "delegate", "panicked"}
    \/ llm /\ pc \in {"terminal", "save_final"}
    \/ llm /\ pc = "done" /\ outcome.value.ok

\* C31: at every point of a ComplexMission run the roles of the history are
\* system, user, then (assistant, user) pairs, with at most one unpaired
\* assistant entry at the end; after k iterations that continued the length
\* is 2 + 2k, and 2 + 2k + 1 for a run a FinalAnswer ended in iteration k
C31_HistoryShape ==
    (intent = "ComplexMission" /\ session.exists) =>
        /\ Len(History) >= 2
        /\ History[1].role = "system" /\ History[2].role = "user"
        /\ \A i \in 3..Len(History) :
              History[i].role = IF i % 2 = 1 THEN "assistant" ELSE "user"
        /\ Len(History) = 2 + 2 * Continued + (IF Unpaired THEN 1 ELSE 0)
        /\ (Unpaired /\ pc = "done") =>
              /\ LastOf(History).role = "assistant"
              /\ StartsWith(TrimmedText(Raw(LastOf(History))), "FA")

\* a FinalAnswer ended the run in its second iteration with five entries
C31_Witness ==
    /\ pc = "done" /\ session.exists /\ llm
    /\ outcome.value.ok /\ iteration = 1
    /\ Len(History) = 5
    /\ History[4].role = "user" /\ History[5].role = "assistant"
    /\ StartsWith(Raw(History[5]), "FA")

====
